---------------------------- MODULE Spec2Model ----------------------------
(***************************************************************************)
(* Model of the toolchain bootstrap orchestrator (toolchain_builder.py)    *)
(* and of the package-manager abstraction it uses (package_manager.py).    *)
(*                                                                         *)
(* A behaviour is one host: a file system (output root, source workspace), *)
(* a sequence of processes and, inside each process, a sequence of         *)
(* build_toolchain calls.  Every external program (tar, git, patch,        *)
(* configure, make, the package managers) is an environment choice: its    *)
(* result is drawn with \E, its effect on the file system is what the      *)
(* orchestrator relies on (make install puts the tool under <root>/bin).   *)
(***************************************************************************)
EXTENDS Naturals, Sequences, FiniteSets

VARIABLES
    system,        \* platform.system() of the host
    cached,        \* PackageManager.cached (class attribute, per process)
    did_update,    \* Apt.did_update (class attribute, per process)
    rootDir,       \* params.root_dir exists
    bin,           \* files present in <root>/bin, as <<prefix, tool>>
    dirs,          \* directories present under <root>
    src,           \* the extraction directories of the source workspace
    tarball,       \* the tarballs of the source workspace
    params,        \* the ToolchainParams of the current build_toolchain call
    pc,            \* position of the current call
    is_new,        \* local of _download_gcc_toolchain_sources
    depIdx,        \* loop position of install_dependencies
    trace,         \* what the current call did so far, in order
    pmLog,         \* package-manager calls of the latest step of the call
    pmUsed,        \* the current call reached get_package_manager
    updates,       \* apt-get update runs of the current process
    shortCircuit,  \* the current call returned at the entry check
    error          \* the exception that ended the current call

vars == <<system, cached, did_update, rootDir, bin, dirs, src, tarball,
          params, pc, is_new, depIdx, trace, pmLog, pmUsed, updates,
          shortCircuit, error>>

fsVars == <<rootDir, bin, dirs, src, tarball>>
procVars == <<cached, did_update, updates>>
depVars == <<depIdx, pmLog, pmUsed>>

---------------------------------------------------------------------------
(* Helpers on sequences.                                                   *)

Min(S) == CHOOSE m \in S : \A n \in S : m <= n

Range(s) == {s[i] : i \in 1..Len(s)}

\* Python's `sub in s` on strings, the strings being sequences of characters.
Contains(s, sub) ==
    \E i \in 0..Len(s) :
        /\ i + Len(sub) <= Len(s)
        /\ \A j \in 1..Len(sub) : s[i + j] = sub[j]

---------------------------------------------------------------------------
(* Inputs.                                                                 *)

SUPPORTED_SYSTEMS == {"Linux", "Darwin"}

ELF == <<"e", "l", "f">>
W64_MINGW32 == <<"w", "6", "4", "-", "m", "i", "n", "g", "w", "3", "2">>
MINGW == <<"m", "i", "n", "g", "w">>

TargetPlatforms == {ELF, W64_MINGW32}
TargetArchs == {"x86_64", "arm"}
ToolchainTypes == {"gcc", "clang"}

ToolchainParams ==
    [type : ToolchainTypes,
     target_arch : TargetArchs,
     target_platform : TargetPlatforms,
     skip_dependencies : BOOLEAN,
     keep_sources : BOOLEAN,
     keep_build : BOOLEAN]

NoParams ==
    [type |-> "clang", target_arch |-> "x86_64", target_platform |-> ELF,
     skip_dependencies |-> TRUE, keep_sources |-> TRUE, keep_build |-> TRUE]

\* One host builds for one target; the calls differ in kind and flags.
SameTarget(p, q) ==
    /\ p.target_arch = q.target_arch
    /\ p.target_platform = q.target_platform

SameFlags(p, q) ==
    /\ p.type = q.type
    /\ p.skip_dependencies = q.skip_dependencies
    /\ p.keep_sources = q.keep_sources
    /\ p.keep_build = q.keep_build

---------------------------------------------------------------------------
(* Names of the file system.                                               *)

Trees == {"gcc", "binutils"}

arch_to_prefix == [a \in {"x86_64", "i686"} |-> <<a, "-">>]

_get_gcc_prefix(p) == arch_to_prefix[p.target_arch] \o p.target_platform

binutils_build_dir(p) == <<"binutils", p.target_arch, "build">>
gcc_build_dir(p) == <<"gcc", p.target_arch, "build">>
mingw_w64_dir == <<"mingw-w64">>
mingw_headers_dir == <<"mingw_headers">>
mingw_crt_dir == <<"mingw_crt">>
mingw_target_dir(p) == _get_gcc_prefix(p)

is_mingw(p) == Contains(p.target_platform, MINGW)

IsBuiltWrongTool(files, prefix) ==
    /\ <<prefix, "g++">> \in files
    /\ <<prefix, "ld">> \in files
_is_gcc_toolchain_built(files, prefix) ==
    /\ <<prefix, "gcc">> \in files
    /\ <<prefix, "ld">> \in files


---------------------------------------------------------------------------
(* External commands.  subprocess.run(..., check=True) raises on a         *)
(* non-zero return code; without check the return code is ignored.         *)

Cmd(name, env, check) == [name |-> name, env |-> env, check |-> check]

Ev(stage, cmd, dir, env, rc) ==
    [stage |-> stage, cmd |-> cmd, dir |-> dir, env |-> env, rc |-> rc]

\* The return codes of a run of cmds in which command failAt (0: none) fails.
Rcs(cmds, failAt) == [i \in 1..Len(cmds) |-> IF i = failAt THEN 1 ELSE 0]

\* How many of cmds are executed: up to the first checked one that fails.
ExecutedUnchecked(cmds, rcs) == Len(cmds)
Executed(cmds, rcs) ==
    LET bad == {i \in 1..Len(cmds) : rcs[i] # 0 /\ cmds[i].check}
    IN  IF bad = {} THEN Len(cmds) ELSE Min(bad)

RaisedNever(cmds, rcs) == FALSE
Raised(cmds, rcs) == \E i \in 1..Len(cmds) : rcs[i] # 0 /\ cmds[i].check

subprocess_run(stage, cmds, rcs) ==
    [i \in 1..Executed(cmds, rcs) |->
        Ev(stage, cmds[i].name, <<>>, cmds[i].env, rcs[i])]

Succeeded(events, name) ==
    \E i \in 1..Len(events) : events[i].cmd = name /\ events[i].rc = 0

BinutilsCmds ==
    << Cmd("configure", TRUE, TRUE),
       Cmd("make", TRUE, TRUE),
       Cmd("make install", FALSE, TRUE) >>

MingwHeadersCmds ==
    << Cmd("configure", TRUE, TRUE),
       Cmd("make install", TRUE, TRUE) >>

BrewPrefixCmds ==
    << Cmd("brew --prefix gmp", FALSE, TRUE),
       Cmd("brew --prefix libmpc", FALSE, TRUE),
       Cmd("brew --prefix mpfr", FALSE, TRUE) >>

GccCmds(this_platform) ==
    (IF this_platform = "Darwin" THEN BrewPrefixCmds ELSE <<>>) \o
    << Cmd("configure", TRUE, TRUE),
       Cmd("make all-gcc", TRUE, TRUE),
       Cmd("make install-gcc", TRUE, TRUE) >>

MingwLibsCmds ==
    << Cmd("configure", TRUE, TRUE),
       Cmd("make", TRUE, TRUE),
       Cmd("make install", TRUE, TRUE) >>

LibgccCmds ==
    << Cmd("make all-target-libgcc", FALSE, TRUE),
       Cmd("make install-target-libgcc", FALSE, TRUE) >>

BuildStages == {"binutils", "mingw_headers", "gcc", "mingw_crt", "libgcc"}

\* The stage _build_gcc_toolchain runs after `stage`.
NextStageSwapped(stage, p) ==
    CASE stage = "prepare"       -> "binutils"
      [] stage = "binutils"      -> "gcc"
      [] stage = "gcc"           -> IF is_mingw(p) THEN "mingw_headers"
                                                   ELSE "libgcc"
      [] stage = "mingw_headers" -> "mingw_crt"
      [] stage = "mingw_crt"     -> "libgcc"
      [] OTHER                   -> "build_cleanup"
NextStage(stage, p) ==
    CASE stage = "prepare"       -> "binutils"
      [] stage = "binutils"      -> IF is_mingw(p) THEN "mingw_headers"
                                                   ELSE "gcc"
      [] stage = "mingw_headers" -> "gcc"
      [] stage = "gcc"           -> IF is_mingw(p) THEN "mingw_crt"
                                                   ELSE "libgcc"
      [] stage = "mingw_crt"     -> "libgcc"
      [] OTHER                   -> "build_cleanup"

\* What the completion cleanup removes.
BuildDirsToRemove(p) ==
    IF ~p.keep_build THEN {binutils_build_dir(p), gcc_build_dir(p)} ELSE {}

MingwCloneToRemoveAlways(p) == IF is_mingw(p) THEN {mingw_w64_dir} ELSE {}
MingwCloneToRemove(p) ==
    IF ~p.keep_sources /\ is_mingw(p) THEN {mingw_w64_dir} ELSE {}

SourcesToRemoveGccOnly(p) == IF ~p.keep_sources THEN {"gcc"} ELSE {}
SourcesToRemove(p) == IF ~p.keep_sources THEN Trees ELSE {}

RmtreeEvents(stage, ds) ==
    LET RECURSIVE seq(_)
        seq(S) == IF S = {} THEN <<>>
                  ELSE LET d == CHOOSE x \in S : TRUE
                       IN  <<Ev(stage, "rmtree", d, FALSE, 0)>> \o seq(S \ {d})
    IN  seq(ds)

---------------------------------------------------------------------------
(* The dependency catalog and the package managers.                        *)

PACKAGE_MANAGERS == <<"apt", "pacman", "brew">>

PACKAGE_MANAGER_TO_DEPS ==
    [t \in ToolchainTypes |->
        IF t = "gcc"
        THEN [pm \in Range(PACKAGE_MANAGERS) |->
                CASE pm = "apt" ->
                        <<"build-essential", "bison", "flex", "libgmp-dev",
                          "libmpc-dev", "libmpfr-dev", "texinfo", "libisl-dev">>
                  [] pm = "pacman" ->
                        <<"base-devel", "gmp", "libmpc", "mpfr">>
                  [] OTHER ->
                        <<"coreutils", "bison", "flex", "gmp", "libmpc",
                          "mpfr", "texinfo", "isl">>]
        ELSE [pm \in Range(PACKAGE_MANAGERS) |->
                CASE pm = "apt"    -> <<"clang", "lld">>
                  [] pm = "pacman" -> <<"clang", "lld">>
                  [] OTHER         -> <<"llvm">>]]

get_dependencies_for_toolchain(type) == PACKAGE_MANAGER_TO_DEPS[type]

\* One call of the native package tool: the command, the package or the
\* executable it is about, its exit status, and for an is_dep_installed
\* query the value the method returned.
PmEv(cmd, arg, rc) == [cmd |-> cmd, arg |-> arg, rc |-> rc, ret |-> "none"]


---------------------------------------------------------------------------
(* The initial state: a host on which nothing was built or downloaded.     *)

NoTree == [state |-> "absent", patches |-> 0]

Init ==
    /\ system \in SUPPORTED_SYSTEMS
    /\ cached = "None"
    /\ did_update = FALSE
    /\ updates = 0
    /\ rootDir = FALSE
    /\ bin = {}
    /\ dirs = {}
    /\ src = [t \in Trees |-> NoTree]
    /\ tarball = [t \in Trees |-> "absent"]
    /\ params \in {p \in ToolchainParams : SameFlags(p, NoParams)}
    /\ pc = "idle"
    /\ is_new = FALSE
    /\ depIdx = 0
    /\ trace = <<>>
    /\ pmLog = <<>>
    /\ pmUsed = FALSE
    /\ shortCircuit = FALSE
    /\ error = "none"

Returned == pc \in {"idle", "done", "failed"}

---------------------------------------------------------------------------
(* build_toolchain and the entry of its two branches.                      *)

\* Where _ensure_dependencies returns to.
AfterDepsAlwaysAcquire(p) == "acquire_gcc"
AfterDeps(p) == IF p.type = "gcc" THEN "acquire_gcc" ELSE "done"

build_toolchain(p) ==
    /\ Returned
    /\ SameTarget(p, params)
    /\ params' = p
    /\ pc' = IF p.type = "gcc" THEN "ensure_gcc" ELSE "ensure_deps"
    /\ is_new' = FALSE
    /\ depIdx' = 0
    /\ trace' = <<>>
    /\ pmLog' = <<>>
    /\ pmUsed' = FALSE
    /\ shortCircuit' = FALSE
    /\ error' = "none"
    /\ UNCHANGED <<system, fsVars, procVars>>

\* The process ends; the next call runs in a fresh interpreter.
NewProcess ==
    /\ pc \in {"done", "failed"}
    /\ cached # "None" \/ did_update
    /\ cached' = "None"
    /\ did_update' = FALSE
    /\ updates' = 0
    /\ UNCHANGED <<system, fsVars, params, pc, is_new, depVars, trace,
                   shortCircuit, error>>

_ensure_gcc_toolchain ==
    /\ pc = "ensure_gcc"
    /\ IF params.target_arch \notin DOMAIN arch_to_prefix
       THEN /\ pc' = "failed"
            /\ error' = "KeyError"
            /\ UNCHANGED <<rootDir, trace, shortCircuit>>
       ELSE IF _is_gcc_toolchain_built(bin, _get_gcc_prefix(params))
       THEN /\ pc' = "done"
            /\ shortCircuit' = TRUE
            /\ UNCHANGED <<rootDir, trace, error>>
       ELSE /\ rootDir' = TRUE
            /\ trace' = Append(trace, Ev("ensure", "makedirs", <<"root">>,
                                         FALSE, 0))
            /\ pc' = "ensure_deps"
            /\ UNCHANGED <<shortCircuit, error>>
    /\ UNCHANGED <<system, procVars, bin, dirs, src, tarball, params,
                   is_new, depVars>>

\* The early return of _ensure_dependencies.
SkipsDependenciesNever(p) == FALSE
SkipsDependencies(p) == p.skip_dependencies

_ensure_dependencies ==
    /\ pc = "ensure_deps"
    /\ pc' = IF SkipsDependencies(params) THEN AfterDeps(params)
                                         ELSE "get_package_manager"
    /\ UNCHANGED <<system, procVars, fsVars, params, is_new, depVars, trace,
                   shortCircuit, error>>

---------------------------------------------------------------------------
(* package_manager.py                                                      *)

\* The variants get_package_manager probes when `present` are on the path.
ProbedAll(present) == PACKAGE_MANAGERS
Probed(present) ==
    LET found == {i \in 1..Len(PACKAGE_MANAGERS) :
                     PACKAGE_MANAGERS[i] \in present}
    IN  IF found = {} THEN PACKAGE_MANAGERS
        ELSE SubSeq(PACKAGE_MANAGERS, 1, Min(found))

\* The test of PackageManager.cached that get_package_manager starts with.
MemoizedNever(c) == FALSE
Memoized(c) == c # "None"

\* `present` are the executables on the path at the time of this call.
get_package_manager ==
    /\ pc = "get_package_manager"
    /\ pmUsed' = TRUE
    /\ depIdx' = 1
    /\ \E present \in SUBSET Range(PACKAGE_MANAGERS) :
          IF Memoized(cached)
          THEN /\ pmLog' = <<>>
               /\ pc' = "install_dependencies"
               /\ UNCHANGED <<cached, error>>
          ELSE IF system = "Darwin"
          THEN /\ cached' = "brew"
               /\ pmLog' = <<>>
               /\ pc' = "install_dependencies"
               /\ UNCHANGED error
          ELSE LET probes == Probed(present)
                   last == probes[Len(probes)]
               IN  /\ pmLog' = [i \in 1..Len(probes) |->
                                  PmEv("command -v", probes[i],
                                       IF probes[i] \in present THEN 0 ELSE 1)]
                   /\ IF last \in present
                      THEN /\ cached' = last
                           /\ pc' = "install_dependencies"
                           /\ UNCHANGED error
                      ELSE /\ pc' = "failed"
                           /\ error' = "RuntimeError"
                           /\ UNCHANGED cached
    /\ UNCHANGED <<system, did_update, updates, fsVars, params, is_new,
                   trace, shortCircuit>>

pm_deps == get_dependencies_for_toolchain(params.type)[cached]

\* The answers is_dep_installed can get from the native tool.  apt is run
\* with check_output, which raises on a non-zero exit.
QueryResults(pm) ==
    IF pm = "apt" THEN {"installed", "missing", "error"}
                  ELSE {"installed", "missing"}

\* The commands of pm.install_dep(dep).
InstallCmdsNoFlag(pm, dep, updated) ==
    IF pm = "apt"
    THEN << Cmd("apt-get update", FALSE, FALSE), Cmd("install", FALSE, TRUE) >>
    ELSE << Cmd("install", FALSE, TRUE) >>
InstallCmds(pm, dep, updated) ==
    IF pm = "apt"
    THEN (IF ~updated THEN << Cmd("apt-get update", FALSE, FALSE) >>
                      ELSE <<>>)
         \o << Cmd("install", FALSE, TRUE) >>
    ELSE << Cmd("install", FALSE, TRUE) >>

\* What pm.is_dep_installed(dep) returns when the native tool answers q.
is_dep_installed(q) == q = "installed"

\* The query event: apt exits with 0 whatever the answer and the method reads
\* the output, pacman and brew answer with the exit status.
QueryEv(pm, dep, q) ==
    [cmd |-> "is_dep_installed", arg |-> dep,
     rc  |-> IF q = "error" \/ (pm # "apt" /\ q = "missing") THEN 1 ELSE 0,
     ret |-> IF q = "error" THEN "raise"
             ELSE IF is_dep_installed(q) THEN "True" ELSE "False"]

\* The loop of install_dependencies goes on to the next package without
\* installing when the query returned True.
ContinueAlwaysInstalling(query) == FALSE
Continue(query) == query.ret = "True"

\* The index of the package the loop of install_dependencies takes next.
NextDepSkipping(i) == i + 2
NextDep(i) == i + 1

\* One iteration of the loop of install_dependencies, or its end.
install_dependencies ==
    /\ pc = "install_dependencies"
    /\ IF depIdx > Len(pm_deps)
       THEN /\ pc' = AfterDeps(params)
            /\ pmLog' = <<>>
            /\ UNCHANGED <<depIdx, did_update, updates, error>>
       ELSE \E q \in QueryResults(cached), rcs \in [1..2 -> {0, 1}] :
            LET dep == pm_deps[depIdx]
                query == QueryEv(cached, dep, q)
                cmds == InstallCmds(cached, dep, did_update)
                r == [i \in 1..Len(cmds) |-> rcs[i]]
                n == Executed(cmds, r)
                run == [i \in 1..n |-> PmEv(cmds[i].name, dep, r[i])]
            IN  CASE q = "error" ->
                       /\ pmLog' = <<query>>
                       /\ pc' = "failed"
                       /\ error' = "CalledProcessError"
                       /\ UNCHANGED <<depIdx, did_update, updates>>
                  [] q # "error" /\ Continue(query) ->
                       /\ pmLog' = <<query>>
                       /\ depIdx' = NextDep(depIdx)
                       /\ UNCHANGED <<pc, did_update, updates, error>>
                  [] OTHER ->
                       /\ pmLog' = <<query>> \o run
                       /\ did_update' = (did_update \/ cached = "apt")
                       /\ updates' = updates +
                              Cardinality({i \in 1..n :
                                              cmds[i].name = "apt-get update"})
                       /\ IF Raised(cmds, r)
                          THEN /\ pc' = "failed"
                               /\ error' = "CalledProcessError"
                               /\ UNCHANGED depIdx
                          ELSE /\ depIdx' = NextDep(depIdx)
                               /\ UNCHANGED <<pc, error>>
    /\ pmUsed' = pmUsed
    /\ UNCHANGED <<system, cached, fsVars, params, is_new, trace,
                   shortCircuit>>


---------------------------------------------------------------------------
(* Source acquisition.                                                     *)

\* Line 153: the tree counts as acquired when its directory exists.
SkipAcquireOnTarball(srcs, tars, t) == tars[t] # "absent"
SkipAcquire(srcs, tars, t) == srcs[t].state # "absent"

\* What urlretrieve can do: fetch the file, or fail leaving nothing or a
\* truncated file behind.
DownloadResults == {"complete", "absent", "partial"}

\* _download_and_extract for tree t, left to pc `next`;
\* `stored` when the caller assigns the result to is_new.
_download_and_extract(t, next, stored) ==
    /\ IF SkipAcquire(src, tarball, t)
       THEN /\ is_new' = (IF stored THEN FALSE ELSE is_new)
            /\ pc' = next
            /\ UNCHANGED <<src, tarball, trace, error>>
       ELSE \E dl \in DownloadResults, rc \in {0, 1} :
            LET download == tarball[t] = "absent"
                tar == IF download THEN dl ELSE tarball[t]
                dlEv == IF download
                        THEN <<Ev("acquire", "urlretrieve", <<t>>, FALSE,
                                  IF dl = "complete" THEN 0 ELSE 1)>>
                        ELSE <<>>
                \* tar fails on a truncated archive
                tarRc == IF tar = "partial" THEN 1 ELSE rc
            IN  /\ tarball' = [tarball EXCEPT ![t] = tar]
                /\ IF download /\ dl # "complete"
                   THEN /\ trace' = trace \o dlEv
                        /\ pc' = "failed"
                        /\ error' = "URLError"
                        /\ UNCHANGED <<src, is_new>>
                   ELSE IF src[t].state # "absent"
                   THEN \* os.mkdir of an existing directory
                        /\ trace' = trace \o dlEv \o
                              <<Ev("acquire", "mkdir", <<t>>, FALSE, 1)>>
                        /\ pc' = "failed"
                        /\ error' = "FileExistsError"
                        /\ UNCHANGED <<src, is_new>>
                   ELSE /\ trace' = trace \o dlEv \o
                              <<Ev("acquire", "mkdir", <<t>>, FALSE, 0),
                                Ev("acquire", "tar", <<t>>, FALSE, tarRc)>>
                        /\ src' = [src EXCEPT ![t] =
                                     [state |-> IF tarRc = 0 THEN "complete"
                                                             ELSE "partial",
                                      patches |-> 0]]
                        /\ IF tarRc = 0
                           THEN /\ is_new' = (IF stored THEN TRUE ELSE is_new)
                                /\ pc' = next
                                /\ UNCHANGED error
                           ELSE /\ pc' = "failed"
                                /\ error' = "CalledProcessError"
                                /\ UNCHANGED is_new
    /\ UNCHANGED <<system, procVars, rootDir, bin, dirs, params, depVars,
                   shortCircuit>>

\* Lines 186-187.
acquire_gcc ==
    /\ pc = "acquire_gcc"
    /\ _download_and_extract("gcc", "patch_gcc", TRUE)

\* Line 191: the patch is applied to a tree this call extracted.
NeedsPatch(new, this_platform) == new /\ this_platform = "Darwin"

\* Lines 188-192: the tarball is removed, the Darwin patch applied.
patch_gcc ==
    /\ pc = "patch_gcc"
    /\ tarball' = [tarball EXCEPT !["gcc"] = "absent"]
    /\ \E rc \in {0, 1} :
          LET rm == IF tarball["gcc"] # "absent"
                    THEN <<Ev("acquire", "remove", <<"gcc">>, FALSE, 0)>>
                    ELSE <<>>
          IN  IF NeedsPatch(is_new, system)
              THEN /\ trace' = trace \o rm \o
                          <<Ev("acquire", "patch", <<"gcc">>, FALSE, rc)>>
                   /\ IF rc = 0
                      THEN /\ src' = [src EXCEPT !["gcc"].patches = @ + 1]
                           /\ pc' = "acquire_binutils"
                           /\ UNCHANGED error
                      ELSE /\ pc' = "failed"
                           /\ error' = "CalledProcessError"
                           /\ UNCHANGED src
              ELSE /\ trace' = trace \o rm
                   /\ pc' = "acquire_binutils"
                   /\ UNCHANGED <<src, error>>
    /\ UNCHANGED <<system, procVars, rootDir, bin, dirs, params, is_new,
                   depVars, shortCircuit>>

\* Lines 194-195.
acquire_binutils ==
    /\ pc = "acquire_binutils"
    /\ _download_and_extract("binutils", "rm_binutils", FALSE)

\* Lines 196-197.
rm_binutils ==
    /\ pc = "rm_binutils"
    /\ tarball' = [tarball EXCEPT !["binutils"] = "absent"]
    /\ trace' = trace \o
          (IF tarball["binutils"] # "absent"
           THEN <<Ev("acquire", "remove", <<"binutils">>, FALSE, 0)>>
           ELSE <<>>)
    /\ pc' = "prepare"
    /\ UNCHANGED <<system, procVars, rootDir, bin, dirs, src, params, is_new,
                   depVars, shortCircuit, error>>


---------------------------------------------------------------------------
(* _build_gcc_toolchain.                                                   *)

\* One build function: its makedirs, its commands up to the first failure,
\* the tool its install step puts under <root>/bin when it succeeds, its
\* closing rmtree.
\*   stage    the function
\*   workdir  the directory it creates first, or <<>>
\*   cmds     its commands
\*   install  the command that installs `tool`, or ""
\*   scratch  whether it removes workdir when all commands succeeded
BuildStage(stage, workdir, cmds, install, tool, scratch) ==
    /\ \E failAt \in 0..Len(cmds) :
          LET rcs == Rcs(cmds, failAt)
              run == subprocess_run(stage, cmds, rcs)
              raised == Raised(cmds, rcs)
              mk == IF workdir # <<>>
                    THEN <<Ev(stage, "makedirs", workdir, FALSE, 0)>>
                    ELSE <<>>
              rm == IF scratch /\ ~raised
                    THEN <<Ev(stage, "rmtree", workdir, FALSE, 0)>>
                    ELSE <<>>
          IN  /\ trace' = trace \o mk \o run \o rm
              /\ dirs' = IF workdir = <<>> THEN dirs
                         ELSE IF scratch /\ ~raised THEN dirs \ {workdir}
                         ELSE dirs \cup {workdir}
              /\ bin' = IF Succeeded(run, install)
                        THEN bin \cup {<<_get_gcc_prefix(params), tool>>}
                        ELSE bin
              /\ pc' = IF raised THEN "failed" ELSE NextStage(stage, params)
              /\ error' = IF raised THEN "CalledProcessError" ELSE error
    /\ UNCHANGED <<system, procVars, rootDir, src, tarball, params, is_new,
                   depVars, shortCircuit>>

\* Lines 235-264 (and 315): the MinGW sysroot and clone.
prepare ==
    /\ pc = "prepare"
    /\ IF is_mingw(params)
       THEN \E rc \in {0, 1} :
            LET mk == Ev("prepare", "makedirs", mingw_target_dir(params),
                         FALSE, 0)
                cloned == mingw_w64_dir \in dirs
                clone == IF cloned THEN <<>>
                         ELSE <<Ev("prepare", "git clone", mingw_w64_dir,
                                   FALSE, rc)>>
            IN  /\ trace' = trace \o <<mk>> \o clone
                /\ IF cloned \/ rc = 0
                   THEN /\ dirs' = dirs \cup {mingw_target_dir(params),
                                              mingw_w64_dir}
                        /\ pc' = NextStage("prepare", params)
                        /\ UNCHANGED error
                   ELSE /\ dirs' = dirs \cup {mingw_target_dir(params)}
                        /\ pc' = "failed"
                        /\ error' = "CalledProcessError"
       ELSE /\ pc' = NextStage("prepare", params)
            /\ UNCHANGED <<dirs, trace, error>>
    /\ UNCHANGED <<system, procVars, rootDir, bin, src, tarball, params,
                   is_new, depVars, shortCircuit>>

\* Lines 268-270 and 116-131.
_build_binutils ==
    /\ pc = "binutils"
    /\ BuildStage("binutils", binutils_build_dir(params), BinutilsCmds,
                  "make install", "ld", FALSE)

\* Lines 83-94.
_install_mingw_headers ==
    /\ pc = "mingw_headers"
    /\ BuildStage("mingw_headers", mingw_headers_dir, MingwHeadersCmds,
                  "", "", TRUE)

\* Lines 276-278 and 200-223.
_build_gcc ==
    /\ pc = "gcc"
    /\ BuildStage("gcc", gcc_build_dir(params), GccCmds(system),
                  "make install-gcc", "gcc", FALSE)

\* Lines 97-113.
_install_mingw_libs ==
    /\ pc = "mingw_crt"
    /\ BuildStage("mingw_crt", mingw_crt_dir, MingwLibsCmds, "", "", TRUE)

\* Lines 226-230.
_build_libgcc ==
    /\ pc = "libgcc"
    /\ BuildStage("libgcc", <<>>, LibgccCmds, "", "", FALSE)

\* Lines 286-294.
build_cleanup ==
    /\ pc = "build_cleanup"
    /\ LET gone == MingwCloneToRemove(params) \cup BuildDirsToRemove(params)
       IN  /\ dirs' = dirs \ gone
           /\ trace' = trace \o RmtreeEvents("build_cleanup", gone)
    /\ pc' = "ensure_cleanup"
    /\ UNCHANGED <<system, procVars, rootDir, bin, src, tarball, params,
                   is_new, depVars, shortCircuit, error>>

\* Lines 319-324.
ensure_cleanup ==
    /\ pc = "ensure_cleanup"
    /\ LET gone == SourcesToRemove(params)
       IN  /\ src' = [t \in Trees |-> IF t \in gone THEN NoTree ELSE src[t]]
           /\ trace' = trace \o
                 RmtreeEvents("ensure_cleanup", {<<t>> : t \in gone})
    /\ pc' = "done"
    /\ UNCHANGED <<system, procVars, rootDir, bin, dirs, tarball, params,
                   is_new, depVars, shortCircuit, error>>

---------------------------------------------------------------------------

Next ==
    \/ \E p \in ToolchainParams : build_toolchain(p)
    \/ NewProcess
    \/ _ensure_gcc_toolchain
    \/ _ensure_dependencies
    \/ get_package_manager
    \/ install_dependencies
    \/ acquire_gcc
    \/ patch_gcc
    \/ acquire_binutils
    \/ rm_binutils
    \/ prepare
    \/ _build_binutils
    \/ _install_mingw_headers
    \/ _build_gcc
    \/ _install_mingw_libs
    \/ _build_libgcc
    \/ build_cleanup
    \/ ensure_cleanup

Spec == Init /\ [][Next]_vars


---------------------------------------------------------------------------
(* Vocabulary of the properties.                                           *)

IsGcc == params.type = "gcc"

KnownArch == params.target_arch \in {"x86_64", "i686"}

\* <root>/bin/<prefix>-gcc and <root>/bin/<prefix>-ld both exist.
MarkersPresent ==
    /\ KnownArch
    /\ <<(<<params.target_arch, "-">> \o params.target_platform), "gcc">>
          \in bin
    /\ <<(<<params.target_arch, "-">> \o params.target_platform), "ld">>
          \in bin

\* The target platform string contains the MinGW identifier.
MingwTarget == Contains(params.target_platform, MINGW)

IsPrefix(s, t) ==
    /\ Len(s) <= Len(t)
    /\ \A i \in 1..Len(s) : s[i] = t[i]

\* The build stages of a trace in the order they were started: the stage of
\* every event of a build stage that does not continue the event before it.
StagesOf(tr) ==
    LET starts == {i \in 1..Len(tr) :
                      /\ tr[i].stage \in BuildStages
                      /\ i > 1 => tr[i - 1].stage # tr[i].stage}
        nth(k) == CHOOSE i \in starts :
                      Cardinality({j \in starts : j <= i}) = k
    IN  [k \in 1..Cardinality(starts) |-> tr[nth(k)].stage]

ExpectedStages(mingw) ==
    IF mingw
    THEN <<"binutils", "mingw_headers", "gcc", "mingw_crt", "libgcc">>
    ELSE <<"binutils", "gcc", "libgcc">>

\* A configure, make or install step of a build stage returned non-zero.
BuildStepFailed ==
    \E i \in 1..Len(trace) :
        /\ trace[i].stage \in BuildStages
        /\ trace[i].cmd \notin {"makedirs", "rmtree"}
        /\ trace[i].rc # 0

CleanupStages == {"build_cleanup", "ensure_cleanup"}

Removed(d) ==
    \E i \in 1..Len(trace) : trace[i].cmd = "rmtree" /\ trace[i].dir = d

SourceTreesPresent ==
    /\ src["gcc"].state # "absent"
    /\ src["binutils"].state # "absent"
    /\ MingwTarget => <<"mingw-w64">> \in dirs

SourcesAndBuildDirsAbsent ==
    /\ src["gcc"].state = "absent"
    /\ src["binutils"].state = "absent"
    /\ MingwTarget => <<"mingw-w64">> \notin dirs
    /\ <<"binutils", params.target_arch, "build">> \notin dirs
    /\ <<"gcc", params.target_arch, "build">> \notin dirs

RanToCompletion == pc = "done" /\ IsGcc /\ ~shortCircuit

---------------------------------------------------------------------------
(* C1.  A gcc request entered with both completion markers present         *)
(* returns successfully at the entry check: nothing is recorded in the     *)
(* trace (no download, extraction, clone, configure, make or removal), no  *)
(* package manager is detected or queried, and neither the file system nor *)
(* the process state changes.                                              *)
C1_ShortCircuitDoesNothing ==
    [][(pc = "ensure_gcc" /\ MarkersPresent) =>
          /\ pc' = "done"
          /\ trace' = <<>>
          /\ ~pmUsed'
          /\ pmLog' = <<>>
          /\ fsVars' = fsVars
          /\ procVars' = procVars]_vars

C1_Witness ==
    /\ pc = "done" /\ IsGcc /\ shortCircuit
    /\ MarkersPresent /\ trace = <<>> /\ ~pmUsed

(* C2.  As claimed: a gcc call that failed in a build stage never leaves   *)
(* both completion markers behind, so that the retry runs the stages       *)
(* again.                                                                  *)
C2_FailedRunLeavesNoMarker ==
    (pc = "failed" /\ IsGcc /\ BuildStepFailed) => ~MarkersPresent

(* C3.  In a gcc call the build stages start in the order binutils,        *)
(* [mingw_headers], gcc, [mingw_crt], libgcc, the bracketed ones exactly   *)
(* for targets whose platform contains "mingw"; a stage starts only after  *)
(* every command of the earlier stages returned zero; a completed build    *)
(* ran all of them.  git clone and the MinGW stages never occur for other  *)
(* targets, and for MinGW targets every stage runs with the clone present  *)
(* (cloned by this call unless it was there already).                      *)
C3_StageOrder ==
    IsGcc =>
        /\ IsPrefix(StagesOf(trace), ExpectedStages(MingwTarget))
        /\ \A i, j \in 1..Len(trace) :
              (/\ i < j
               /\ trace[i].stage \in BuildStages
               /\ trace[j].stage \in BuildStages
               /\ trace[i].stage # trace[j].stage) => trace[i].rc = 0
        /\ (pc \in {"build_cleanup", "ensure_cleanup"} \/ RanToCompletion)
              => StagesOf(trace) = ExpectedStages(MingwTarget)
        /\ \A i \in 1..Len(trace) :
              (\/ trace[i].cmd = "git clone"
               \/ trace[i].stage \in {"mingw_headers", "mingw_crt"})
                 => MingwTarget
        /\ (MingwTarget /\ pc \in BuildStages) => <<"mingw-w64">> \in dirs

C3_Witness ==
    /\ IsGcc /\ MingwTarget /\ pc = "build_cleanup"
    /\ StagesOf(trace) =
          <<"binutils", "mingw_headers", "gcc", "mingw_crt", "libgcc">>
    /\ \E i \in 1..Len(trace) : trace[i].cmd = "git clone"

(* C4.  A configure, make or install step of a build stage that returns    *)
(* non-zero is the last thing the call does: the call has failed, no step  *)
(* follows it, no step of a build stage was run twice, and no directory    *)
(* was removed by the completion cleanup.                                  *)
C4_FailureAborts ==
    /\ \A i \in 1..Len(trace) :
          (trace[i].stage \in BuildStages /\ trace[i].rc # 0) =>
              /\ i = Len(trace)
              /\ pc = "failed"
              /\ \A j \in 1..Len(trace) :
                    trace[j].stage \notin CleanupStages
              /\ SourceTreesPresent
    /\ \A i, j \in 1..Len(trace) :
          (/\ i # j
           /\ trace[i].stage \in BuildStages
           /\ trace[i].stage = trace[j].stage) => trace[i].cmd # trace[j].cmd

C4_Witness ==
    /\ pc = "failed" /\ IsGcc /\ MingwTarget
    /\ Len(trace) > 0
    /\ trace[Len(trace)].stage = "gcc"
    /\ trace[Len(trace)].cmd = "make all-gcc"
    /\ trace[Len(trace)].rc # 0

(* C5.  As claimed: with keep_build, every working directory a build stage *)
(* created during a completed gcc call still exists when it returns.       *)
C5_KeepBuildKeepsWorkDirs ==
    (RanToCompletion /\ params.keep_build) =>
        \A i \in 1..Len(trace) :
            (trace[i].stage \in BuildStages /\ trace[i].cmd = "makedirs")
                => trace[i].dir \in dirs

(* C6.  As claimed: with keep_sources and keep_build both false, whenever  *)
(* a gcc call returns successfully the source trees, the MinGW clone and   *)
(* the binutils and gcc build directories are absent.                      *)
C6_Original ==
    (pc = "done" /\ IsGcc /\ ~params.keep_sources /\ ~params.keep_build)
        => SourcesAndBuildDirsAbsent

(* C6, amended.  The same of every gcc call that returns successfully      *)
(* without having returned at the entry check.                             *)
C6_CleanupAfterBuild ==
    (RanToCompletion /\ ~params.keep_sources /\ ~params.keep_build)
        => SourcesAndBuildDirsAbsent

C6_Witness ==
    /\ RanToCompletion /\ MingwTarget
    /\ ~params.keep_sources /\ ~params.keep_build
    /\ Removed(<<"gcc">>) /\ Removed(<<"binutils">>)
    /\ Removed(<<"mingw-w64">>)

(* C7.  With keep_sources a gcc call that returns successfully removed     *)
(* none of gcc_sources, binutils_sources and the mingw-w64 clone, and      *)
(* after a completed build all of them exist, whatever keep_build is.      *)
C7_KeepSources ==
    (pc = "done" /\ IsGcc /\ params.keep_sources) =>
        /\ ~Removed(<<"gcc">>)
        /\ ~Removed(<<"binutils">>)
        /\ ~Removed(<<"mingw-w64">>)
        /\ ~shortCircuit => SourceTreesPresent

C7_Witness ==
    /\ RanToCompletion /\ MingwTarget
    /\ params.keep_sources /\ ~params.keep_build
    /\ Removed(<<"gcc", params.target_arch, "build">>)
    /\ SourceTreesPresent

(* C8.  As claimed: a call whose target architecture is not a key of the   *)
(* prefix table never succeeds and touches neither the package manager nor *)
(* any external command, for gcc and for clang.                            *)
C8_UnknownArchFailsEarly ==
    (~KnownArch /\ pc # "idle") =>
        /\ pc # "done"
        /\ ~pmUsed
        /\ trace = <<>>

(* C9.  As claimed: no build stage runs on a source tree whose extraction  *)
(* did not complete: whenever the call is about to run a stage, the tree   *)
(* that stage builds from was extracted completely.                        *)
C9_BuildOnlyOnExtractedTrees ==
    /\ pc = "binutils" => src["binutils"].state = "complete"
    /\ pc \in {"gcc", "libgcc"} => src["gcc"].state = "complete"

(* C10.  _download_and_extract on a tree whose extraction directory exists *)
(* downloads nothing, extracts nothing and leaves the directory as it is,  *)
(* with or without the tarball; the patch step that follows for gcc leaves *)
(* it alone too.                                                           *)
C10_AcquisitionIdempotent ==
    [][/\ (pc = "acquire_gcc" /\ src["gcc"].state # "absent") =>
              /\ src' = src
              /\ trace' = trace
              /\ pc' = "patch_gcc"
              /\ ~is_new'
       /\ (pc = "patch_gcc" /\ ~is_new) =>
              /\ src' = src
              /\ \A i \in 1..Len(trace') : trace'[i].cmd # "patch"
       /\ (pc = "acquire_binutils" /\ src["binutils"].state # "absent") =>
              /\ src' = src
              /\ trace' = trace
              /\ pc' = "rm_binutils"]_vars

C10_Witness ==
    /\ pc = "patch_gcc" /\ ~is_new
    /\ src["gcc"].state # "absent"
    /\ tarball["gcc"] # "absent"
    /\ trace = <<Ev("ensure", "makedirs", <<"root">>, FALSE, 0)>>

(* C11.  install_dep is only called for a package whose is_dep_installed   *)
(* query, the call just before it, returned False: the calls of one loop   *)
(* iteration are the query of one package and then, if any, the commands   *)
(* of install_dep for that same package.                                  *)
InstallDepCmds == {"apt-get update", "install"}

C11_InstallOnlyAfterNegativeQuery ==
    \A i \in 1..Len(pmLog) :
        pmLog[i].cmd \in InstallDepCmds =>
            /\ i > 1
            /\ pmLog[1].cmd = "is_dep_installed"
            /\ pmLog[1].ret = "False"
            /\ pmLog[1].arg = pmLog[i].arg
            /\ \A j \in 2..i : pmLog[j].cmd \in InstallDepCmds

C11_Witness ==
    /\ Len(pmLog) >= 2
    /\ pmLog[1].cmd = "is_dep_installed" /\ pmLog[1].ret = "False"
    /\ pmLog[Len(pmLog)].cmd = "install" /\ pmLog[Len(pmLog)].rc = 0
    /\ depIdx > 1

(* C12.  install_dependencies walks the catalog list of the detected       *)
(* package manager in list order.  The loop starts at the first package;   *)
(* each iteration queries the package at the loop position once, installs  *)
(* it once exactly when the query returned False, touches no other         *)
(* package, and only then moves on to the position after it (or fails);    *)
(* the loop is left without failure only past the last package.            *)
CallsOf(log, cmd) == {i \in 1..Len(log) : log[i].cmd = cmd}

Catalog == PACKAGE_MANAGER_TO_DEPS[params.type][cached]

C12_CatalogOrder ==
    [][/\ (pc # "install_dependencies" /\ pc' = "install_dependencies") =>
              /\ cached' # "None"
              /\ depIdx' = 1
       /\ (pc = "install_dependencies" /\ depIdx <= Len(Catalog)) =>
              /\ CallsOf(pmLog', "is_dep_installed") = {1}
              /\ \A i \in 1..Len(pmLog') : pmLog'[i].arg = Catalog[depIdx]
              /\ Cardinality(CallsOf(pmLog', "install")) =
                     (IF pmLog'[1].ret = "False" THEN 1 ELSE 0)
              /\ \/ pc' = "install_dependencies" /\ depIdx' = depIdx + 1
                 \/ pc' = "failed"
              /\ pc' = "failed" <=>
                     \/ pmLog'[1].ret = "raise"
                     \/ \E i \in CallsOf(pmLog', "install") :
                           pmLog'[i].rc # 0
       /\ (pc = "install_dependencies" /\ depIdx > Len(Catalog)) =>
              /\ depIdx = Len(Catalog) + 1
              /\ pc' \notin {"install_dependencies", "failed"}
              /\ pmLog' = <<>>]_vars

C12_Witness ==
    /\ pc = "install_dependencies"
    /\ Len(Catalog) >= 2
    /\ depIdx = Len(Catalog) + 1
    /\ CallsOf(pmLog, "install") # {}
    /\ pmLog[1].arg = Catalog[Len(Catalog)]

(* C13.  apt-get update runs at most once per process, whatever the number *)
(* of install_dep calls and of build_toolchain calls: only apt runs it,    *)
(* only inside an install_dep call that has a package to install, and only *)
(* while Apt.did_update is unset, which is so exactly while the process    *)
(* has run no install_dep yet; it then comes before the install command.   *)
(* The witness is the first package of a later build_toolchain call being  *)
(* installed without an update.                                            *)
C13_UpdateOncePerProcess ==
    [][/\ updates' <= 1
       /\ did_update' <=> (updates' = 1)
       /\ pmLog' # pmLog =>
             LET upd == CallsOf(pmLog', "apt-get update")
                 ins == CallsOf(pmLog', "install")
             IN  /\ Cardinality(upd) <= 1
                 /\ upd # {} =>
                        /\ cached = "apt"
                        /\ ~did_update /\ updates = 0
                        /\ pmLog'[1].ret = "False"
                        /\ \A i \in upd : i + 1 \in ins
                 /\ (ins # {} /\ cached = "apt" /\ ~did_update) =>
                        \A j \in ins : \E i \in upd : i < j
                 /\ upd = {} => updates' = updates
                                 \/ (updates' = 0 /\ cached' = "None")]_vars

C13_Witness ==
    /\ cached = "apt" /\ did_update /\ updates = 1
    /\ CallsOf(pmLog, "install") # {}
    /\ CallsOf(pmLog, "apt-get update") = {}
    /\ depIdx = 2

(* C14.  An install command that exits with a non-zero status ends the     *)
(* call: it is the last package-manager command of the call, the call has  *)
(* failed with CalledProcessError, nothing of source acquisition or of a   *)
(* build stage has run, and nothing more happens until the next            *)
(* build_toolchain call.                                                   *)
FailedInstall(log) ==
    \E i \in CallsOf(log, "install") : log[i].rc # 0

C14_InstallFailureAborts ==
    [][/\ FailedInstall(pmLog') =>
              /\ pc' = "failed"
              /\ error' = "CalledProcessError"
              /\ pmLog'[Len(pmLog')].cmd = "install"
              /\ pmLog'[Len(pmLog')].rc # 0
              /\ \A i \in 1..Len(trace') : trace'[i].stage = "ensure"
       /\ FailedInstall(pmLog) =>
              \/ /\ pc' \in {"ensure_gcc", "ensure_deps"}
                 /\ pmLog' = <<>> /\ trace' = <<>>
              \/ /\ pc' = "failed"
                 /\ UNCHANGED <<pmLog, depIdx, trace, fsVars>>]_vars

C14_Witness ==
    /\ FailedInstall(pmLog)
    /\ params.type = "gcc"
    /\ depIdx < Len(Catalog)
    /\ pc = "failed"

(* C15.  get_package_manager with nothing cached: on Darwin it selects     *)
(* brew and probes nothing; elsewhere it probes apt, pacman, brew in that  *)
(* order, stops at the first probe that succeeds and selects that variant; *)
(* when all three probes fail it raises RuntimeError and caches nothing.   *)
IsProbeRun(log) ==
    /\ Len(log) \in 1..Len(PACKAGE_MANAGERS)
    /\ \A i \in 1..Len(log) :
          /\ log[i].cmd = "command -v"
          /\ log[i].arg = PACKAGE_MANAGERS[i]
          /\ i < Len(log) => log[i].rc # 0

C15_Detection ==
    [][(pc = "get_package_manager" /\ cached = "None") =>
          IF system = "Darwin"
          THEN /\ cached' = "brew"
               /\ pmLog' = <<>>
               /\ pc' = "install_dependencies"
          ELSE /\ IsProbeRun(pmLog')
               /\ IF pmLog'[Len(pmLog')].rc = 0
                  THEN /\ cached' = pmLog'[Len(pmLog')].arg
                       /\ pc' = "install_dependencies"
                  ELSE /\ Len(pmLog') = Len(PACKAGE_MANAGERS)
                       /\ cached' = "None"
                       /\ pc' = "failed"
                       /\ error' = "RuntimeError"]_vars

\* pacman was selected after apt was probed and found missing.
C15_Witness ==
    /\ system # "Darwin"
    /\ cached = "pacman"
    /\ Len(pmLog) = 2
    /\ pmLog[1] = PmEv("command -v", "apt", 1)
    /\ pmLog[2] = PmEv("command -v", "pacman", 0)

(* C16.  Once a variant is cached, every later get_package_manager call of *)
(* the process returns that variant and probes nothing, whichever          *)
(* executables are on the path at the time of that call.                   *)
C16_DetectionMemoized ==
    [][/\ (pc = "get_package_manager" /\ cached # "None") =>
              /\ cached' = cached
              /\ pmLog' = <<>>
              /\ pc' = "install_dependencies"
              /\ error' = error
       /\ (cached # "None" /\ cached' # cached) =>
              /\ cached' = "None"
              /\ pc \in {"done", "failed"} /\ pc' = pc]_vars

\* A call on a host where detection probes has returned a variant without
\* a probe.
C16_Witness ==
    /\ system # "Darwin"
    /\ cached # "None"
    /\ pc = "install_dependencies"
    /\ depIdx = 1
    /\ pmLog = <<>>

(* C17.  A clang request does dependency resolution and nothing else: it   *)
(* never reaches the entry check of the gcc branch, records no download,   *)
(* extraction, clone, directory creation, configure or make in the trace,  *)
(* and leaves the output root, the build directories, the source trees and *)
(* the tarballs as they were, whatever its other parameters.               *)
ClangSteps ==
    {"idle", "ensure_deps", "get_package_manager", "install_dependencies",
     "done", "failed"}

C17_ClangOnlyResolvesDependencies ==
    [][params'.type = "clang" =>
          /\ pc' \in ClangSteps
          /\ trace' = <<>>
          /\ ~shortCircuit'
          /\ fsVars' = fsVars]_vars

\* A clang request has gone through the whole dependency loop and returned
\* on a host where no output root exists.
C17_Witness ==
    /\ params.type = "clang"
    /\ pc = "done"
    /\ pmUsed /\ cached # "None"
    /\ depIdx = Len(Catalog) + 1
    /\ ~rootDir

(* C18.  With skip_dependencies set, a request of either kind detects no   *)
(* package manager, queries and installs nothing and runs no apt-get       *)
(* update.  A gcc request goes from the dependency step to source          *)
(* acquisition in the state in which a request with the flag unset leaves  *)
(* the dependency loop, and when it returns successfully after building it *)
(* has run every build stage of its target.                                *)
C18_SkipDependencies ==
    [][/\ params'.skip_dependencies =>
              /\ ~pmUsed'
              /\ pmLog' = <<>>
              /\ pc' \notin {"get_package_manager", "install_dependencies"}
              /\ updates' <= updates
              /\ did_update' => did_update
              /\ cached' \in {cached, "None"}
       /\ (params.skip_dependencies /\ pc = "ensure_deps") =>
              /\ pc' = IF IsGcc THEN "acquire_gcc" ELSE "done"
              /\ trace' = trace
              /\ fsVars' = fsVars
       /\ (/\ ~params.skip_dependencies
           /\ pc = "install_dependencies"
           /\ pc' \notin {"install_dependencies", "failed"}) =>
              /\ pc' = IF IsGcc THEN "acquire_gcc" ELSE "done"
              /\ trace' = trace
              /\ fsVars' = fsVars
       /\ (/\ params'.skip_dependencies /\ params'.type = "gcc"
           /\ pc' = "done" /\ ~shortCircuit') =>
              StagesOf(trace') = ExpectedStages(MingwTarget)]_vars

\* A gcc request with the flag set has built the toolchain.
C18_Witness ==
    /\ params.skip_dependencies
    /\ RanToCompletion
    /\ MarkersPresent
    /\ ~pmUsed
    /\ \E i \in 1..Len(trace) : trace[i].stage = "acquire"

(* C19.  As claimed: every configure or make command of a build stage,     *)
(* from the binutils stage on and the two libgcc commands among them, is   *)
(* run with the derived environment, whose PATH begins with <root>/bin.    *)
BuildCommands ==
    {"configure", "make", "make install", "make all-gcc", "make install-gcc",
     "make all-target-libgcc", "make install-target-libgcc"}

C19_BuildCommandsUseDerivedEnv ==
    \A i \in 1..Len(trace) :
        (trace[i].stage \in BuildStages /\ trace[i].cmd \in BuildCommands)
            => trace[i].env

(* C20.  As claimed, for a tree whose extraction completed: on a Darwin    *)
(* host, whenever a call is about to run the GCC stage-1 build, the GCC    *)
(* source tree has been patched exactly once, neither never nor twice,     *)
(* whatever calls came before.                                             *)
C20_GccBuiltOnTreePatchedOnce ==
    (/\ system = "Darwin"
     /\ pc = "gcc"
     /\ src["gcc"].state = "complete") => src["gcc"].patches = 1

===========================================================================
